---- MODULE Spec2Model ----
(***************************************************************************)
(* The contract algebra of jscategory: primitive contracts, prodn, the     *)
(* hom functor with its self helper, and memo.                             *)
(*                                                                         *)
(* Two revisions of the library are modelled, selected by the variable     *)
(* rev:                                                                    *)
(*   "js"  - src/jscategory.js              (var CT = (function () {...})  *)
(*   "es6" - src/unnamed/part_000:1-337     (define(() => { let ... })     *)
(* The third copy, src/unnamed/part_000:339-661, does not parse (line 603  *)
(* has a stray ';' inside a call); of it only prods is modelled, as it is  *)
(* written (prodsVar).                                                     *)
(*                                                                         *)
(* JavaScript values are tagged records [t, v]; an outcome of a call is    *)
(* [ok, val]: a returned value, or the thrown error value.                 *)
(***************************************************************************)
EXTENDS Integers, Sequences, FiniteSets, TLC

VARIABLES
  rev,       \* which revision of the library is loaded
  strBound,  \* whether the host's global scope binds the identifier str
  homab,     \* the function contract built by hom(...), if any
  guarded,   \* the guarded callable / self-bound method made from homab
  prod,      \* the contract built by prodn(cs), if any
  comb,      \* the contract built by another combinator, if any
  memos,     \* the memoizers built by memo(c), each with its own cache and
             \* the calls of it whose wrapped callable is still running
  count,     \* the state cell written by the caller-supplied callable tick
  trace,     \* the contract applications and runs of the last guarded call,
             \* in the order they were made
  seen,      \* per memoizer and argument: the outcome of the first call and
             \* the number of runs of the wrapped callable (history)
  last       \* what the last operation was given and what it did

vars == <<rev, strBound, homab, guarded, prod, comb, memos, count, trace,
          seen, last>>

---------------------------------------------------------------------------
(* Bounds of the exploration. *)

\* longest parameter list given to hom / prodn
MaxParams == 2
\* the cell count is not incremented past this
MaxCount == 3
\* deepest nesting of calls of one memoized function inside its callable
MaxDepth == 2

\* argument lists are explored one past the longest parameter list
MaxArgs == MaxParams + 1

---------------------------------------------------------------------------
(* JavaScript values. *)

\* A number is kept as two limbs, value = hi * 2^16 + lo, so that numbers
\* outside the signed 32-bit range exist and n | 0 keeps its real width;
\* frac adds one half to the value, so that numbers that are no integers
\* exist.
Limb == 2 ^ 16

Undef == [t |-> "undefined", v |-> 0]
NaN ==
  [t |-> "number", v |-> [hi |-> 0, lo |-> 0, nan |-> TRUE, frac |-> FALSE]]
Num(hi, lo) ==
  [t |-> "number", v |-> [hi |-> hi, lo |-> lo, nan |-> FALSE, frac |-> FALSE]]
Half(hi, lo) ==
  [t |-> "number", v |-> [hi |-> hi, lo |-> lo, nan |-> FALSE, frac |-> TRUE]]
N(n) == Num(n \div Limb, n % Limb)
Str(s) == [t |-> "string", v |-> s]
Bool(b) == [t |-> "boolean", v |-> b]
Arr(s) == [t |-> "array", v |-> s]
Obj(id, cls) == [t |-> "object", v |-> [id |-> id, cls |-> cls]]
Fn(name) == [t |-> "function", v |-> [name |-> name, opt |-> FALSE]]
Err(kind, msg) == [t |-> "error", v |-> [name |-> kind, message |-> msg]]

\* A parameter contract carrying an "optional" mark.  The library defines
\* no such marker; a marked contract is an ordinary function to it.
Opt(c) == [t |-> "function", v |-> [name |-> c.v.name, opt |-> TRUE]]

Ret(x) == [ok |-> TRUE, val |-> x]
Throw(e) == [ok |-> FALSE, val |-> e]
TypeError(msg) == Throw(Err("TypeError", msg))

\* x === y
StrictEq(x, y) ==
  /\ x.t = y.t
  /\ x.v = y.v
  /\ (x.t = "number" => ~x.v.nan)

\* typeof x
TypeOfTag(x) ==
  IF x.t \in {"undefined", "number", "string", "boolean", "function"}
  THEN x.t ELSE "object"

\* {}.toString.call(x), without the brackets: the [[Class]] of x
ClassName(x) ==
  CASE x.t = "array" -> "Array"
    [] x.t = "object" -> "Object"
    [] x.t = "error" -> "Error"
    [] x.t = "function" -> "Function"
    [] x.t = "number" -> "Number"
    [] x.t = "string" -> "String"
    [] x.t = "boolean" -> "Boolean"
    [] OTHER -> "Undefined"

DigitStr == <<"0", "1", "2", "3", "4", "5", "6", "7", "8", "9">>

RECURSIVE NatToStr(_)
NatToStr(n) ==
  IF n < 10 THEN DigitStr[n + 1]
  ELSE NatToStr(n \div 10) \o DigitStr[(n % 10) + 1]

\* String(x), as + and string concatenation convert an operand
ToStr(x) ==
  CASE x.t = "string" -> x.v
    [] x.t = "number" ->
         IF x.v.nan THEN "NaN"
         ELSE IF x.v.hi < 0
              THEN "-" \o NatToStr(0 - (x.v.hi * Limb + x.v.lo)
                                     - (IF x.v.frac THEN 1 ELSE 0))
                       \o (IF x.v.frac THEN ".5" ELSE "")
              ELSE NatToStr(x.v.hi * Limb + x.v.lo)
                     \o (IF x.v.frac THEN ".5" ELSE "")
    [] x.t = "boolean" -> IF x.v THEN "true" ELSE "false"
    [] x.t = "undefined" -> "undefined"
    [] x.t = "function" -> "function " \o x.v.name
    [] x.t = "error" -> x.v.name \o ": " \o x.v.message
    [] OTHER -> "[object Object]"

\* Number(x) for the primitive values
ToNumber(x) ==
  CASE x.t = "number" -> x
    [] x.t = "boolean" -> IF x.v THEN N(1) ELSE N(0)
    [] x.t = "string" ->
         IF x.v = "" THEN N(0)
         ELSE IF \E d \in 1..10 : DigitStr[d] = x.v
              THEN N((CHOOSE d \in 1..10 : DigitStr[d] = x.v) - 1)
              ELSE NaN
    [] OTHER -> NaN

\* the integer next to the number n, towards zero
Truncate(n) ==
  IF n.v.frac /\ n.v.hi < 0
  THEN IF n.v.lo = Limb - 1 THEN Num(n.v.hi + 1, 0)
       ELSE Num(n.v.hi, n.v.lo + 1)
  ELSE Num(n.v.hi, n.v.lo)

\* the integer n modulo 2^32, as a signed 32-bit number
Wrap(n) == Num(((n.v.hi + Limb \div 2) % Limb) - Limb \div 2, n.v.lo)

\* ToInt32(n) for a number n: NaN goes to 0, the rest is truncated and
\* wraps modulo 2^32
ToInt32(n) == IF n.v.nan THEN N(0) ELSE Wrap(Truncate(n))

\* x | 0
BitOr0(x) == ToInt32(ToNumber(x))

\* x < 0 for a number x
Negative(x) == ~x.v.nan /\ x.v.hi < 0

\* a + b for numbers a and b
NumPlus(a, b) ==
  IF a.v.nan \/ b.v.nan THEN NaN
  ELSE [t |-> "number",
        v |-> [hi |-> a.v.hi + b.v.hi
                      + ((a.v.lo + b.v.lo
                          + (IF a.v.frac /\ b.v.frac THEN 1 ELSE 0))
                         \div Limb),
               lo |-> (a.v.lo + b.v.lo
                       + (IF a.v.frac /\ b.v.frac THEN 1 ELSE 0)) % Limb,
               nan |-> FALSE,
               frac |-> a.v.frac # b.v.frac]]

\* x + y
Plus(x, y) ==
  IF x.t \in {"string", "object", "array", "function", "error"}
     \/ y.t \in {"string", "object", "array", "function", "error"}
  THEN Str(ToStr(x) \o ToStr(y))
  ELSE NumPlus(ToNumber(x), ToNumber(y))

\* ToBoolean(x)
Truthy(x) ==
  CASE x.t = "boolean" -> x.v
    [] x.t = "number" ->
         ~x.v.nan /\ ~(x.v.hi = 0 /\ x.v.lo = 0 /\ ~x.v.frac)
    [] x.t = "string" -> x.v # ""
    [] x.t = "undefined" -> FALSE
    [] OTHER -> TRUE

\* The i-th (1-based) actual argument; a missing one reads undefined.
Arg(args, i) == IF i <= Len(args) THEN args[i] ELSE Undef

---------------------------------------------------------------------------
(* Primitive contracts. *)

any(x) == Ret(x)

classOf(s, x) ==
  IF ClassName(x) # s THEN TypeError("Expected " \o s) ELSE Ret(x)

array(x) == classOf("Array", x)

typeOf(s, x) ==
  IF TypeOfTag(x) # s
  THEN IF rev = "js"
       THEN TypeError("Expected a" \o (IF s = "object" THEN "n" ELSE "")
                      \o s \o ".")
       ELSE TypeError("Expected a" \o (IF s = "object" THEN "n " ELSE " ")
                      \o s \o ".")
  ELSE Ret(x)

func(x) == typeOf("function", x)
string(x) == typeOf("string", x)
boolean(x) == typeOf("boolean", x)
number(x) == typeOf("number", x)

\* inst instanceof ctor, for the constructor named ctor
instanceOf(ctor, inst) ==
  IF ~(inst.t = "object" /\ inst.v.cls = ctor)
  THEN TypeError("Expected an instance of " \o ctor)
  ELSE Ret(inst)

\* int32 testing Math.floor(n) !== n
int32Floor(n) ==
  IF ~(n.t = "number" /\ ~n.v.nan /\ ~n.v.frac)
  THEN TypeError("Expected a 32-bit integer.")
  ELSE Ret(n)

int32(n) ==
  IF ~StrictEq(BitOr0(n), n)
  THEN TypeError("Expected a 32-bit integer.")
  ELSE Ret(n)

nat32(n) ==
  IF ~StrictEq(BitOr0(n), n) \/ Negative(n)
  THEN TypeError("Expected a 32-bit natural.")
  ELSE Ret(n)

\* mod2 = hom(int32, boolean)(function (n) { return (n % 2) ? true : false; })
\* used as a unary contract: int32 on the way in, boolean on the way out.
mod2(x) ==
  IF ~int32(x).ok THEN int32(x)
  ELSE boolean(Bool(x.v.lo % 2 = 1))

\* c(x) for a function value c used as a contract
Apply(c, x) ==
  CASE c.v.name = "any" -> any(x)
    [] c.v.name = "func" -> func(x)
    [] c.v.name = "string" -> string(x)
    [] c.v.name = "boolean" -> boolean(x)
    [] c.v.name = "number" -> number(x)
    [] c.v.name = "int32" -> int32(x)
    [] c.v.name = "nat32" -> nat32(x)
    [] c.v.name = "mod2" -> mod2(x)
    [] c.v.name = "isFoo" -> instanceOf("Foo", x)
    [] c.v.name = "never" -> TypeError("never")
    [] c.v.name = "K7" -> Ret(N(7))
    [] OTHER -> Ret(Undef)

---------------------------------------------------------------------------
(* arrayOf and prodn. *)

RECURSIVE mapLoop(_, _, _, _)
\* one step of the walk, r the outcome of c(a[i])
mapStep(c, a, i, acc, r) ==
  IF r.ok THEN mapLoop(c, a, i + 1, Append(acc, r.val))
  ELSE [out |-> r, applied |-> i, after |-> Arr(a)]

\* a.map(x => c(x)): left to right, the first throw ends the walk; out is
\* the outcome, applied the number of applications of c, after the array
\* walked (map writes into a new one)
mapLoop(c, a, i, acc) ==
  IF i > Len(a)
  THEN [out |-> Ret(Arr(acc)), applied |-> i - 1, after |-> Arr(a)]
  ELSE mapStep(c, a, i, acc, Apply(c, a[i]))

\* arrayOf(c)(a), with the number of applications of c
arrayOfRun(c, a) ==
  IF ~array(a).ok THEN [out |-> array(a), applied |-> 0, after |-> a]
  ELSE mapLoop(c, a.v, 1, <<>>)

\* arrayOf(c)(a)
arrayOf(c, a) == arrayOfRun(c, a).out

\* arrayOf(c): the check made when the contract is built
arrayOfNew(c) == func(c)

\* prodn(cs): the checks made when the contract is built
prodnNew(cs) == arrayOf(Fn("func"), cs)

\* the loop of prodn applying every contract and throwing the first error
\* afterwards
prodnLoopAll(cs, args, i, acc) ==
  LET n == Len(cs)
      fails == {j \in i..n : ~Apply(cs[j], args[j]).ok}
  IN  IF fails = {}
      THEN [out |-> Ret(Arr(acc \o [j \in 1..(n + 1 - i) |->
                                      Apply(cs[j + i - 1],
                                            args[j + i - 1]).val])),
            applied |-> n, done |-> acc]
      ELSE [out |-> Apply(cs[CHOOSE j \in fails : \A k \in fails : j <= k],
                          args[CHOOSE j \in fails : \A k \in fails : j <= k]),
            applied |-> n, done |-> acc]

RECURSIVE prodnLoop(_, _, _, _)
\* one turn of the loop, r the outcome of cs[i](args[i])
prodnStep(cs, args, i, acc, r) ==
  IF r.ok THEN prodnLoop(cs, args, i + 1, Append(acc, r.val))
  ELSE [out |-> r, applied |-> i, done |-> acc]

\* the for loop of prodn: out is the outcome, applied the number of
\* contracts applied, done the validated elements stored so far
prodnLoop(cs, args, i, acc) ==
  IF i > Len(cs) THEN [out |-> Ret(Arr(acc)), applied |-> i - 1, done |-> acc]
  ELSE prodnStep(cs, args, i, acc, Apply(cs[i], args[i]))

\* What prodn(cs)(args) leaves: out is the outcome, after the contents of
\* the array args once the call is over ("es6" stores each validated
\* element back into args and returns args; "js" fills a new array).
prodnDone(args, l) ==
  [out |-> l.out, applied |-> l.applied,
   after |-> IF rev = "js" THEN args
             ELSE Arr(l.done \o SubSeq(args.v, Len(l.done) + 1, Len(args.v)))]

prodnFail(args, e) == [out |-> e, applied |-> 0, after |-> args]

\* prodn without the length test
prodnNoArity(cs, args) ==
  IF ~array(args).ok THEN prodnFail(args, array(args))
  ELSE LET n == IF Len(args.v) < Len(cs) THEN Len(args.v) ELSE Len(cs)
       IN  prodnDone(args, prodnLoop(SubSeq(cs, 1, n), args.v, 1, <<>>))

\* prodn(cs)(args)
prodn(cs, args) ==
  IF ~array(args).ok THEN prodnFail(args, array(args))
  ELSE IF Len(args.v) # Len(cs)
  THEN prodnFail(args,
         TypeError("Expected " \o NatToStr(Len(cs))
                   \o (IF rev = "js" THEN " arguments" ELSE " elements")))
  ELSE prodnDone(args, prodnLoop(cs, args.v, 1, <<>>))

---------------------------------------------------------------------------
(* Objects with fields, objectOf, coprodn and coprods. *)

\* An object: its identity, its prototype (an object value, or Undef for
\* Object.prototype) and its own enumerable fields in insertion order.
Rec(id, proto, fields) ==
  [t |-> "object",
   v |-> [id |-> id, cls |-> "Object", proto |-> proto, fields |-> fields]]

Field(k, x) == [k |-> k, v |-> x]

\* the identity of the object a call allocates
NewId == 9

\* the keys of a field list, in order
Keys(fs) == [i \in 1..Len(fs) |-> fs[i].k]

\* o.hasOwnProperty(k)
HasOwn(o, k) == \E i \in 1..Len(o.v.fields) : o.v.fields[i].k = k

\* o[k]: the own field, else the prototype chain, else undefined
RECURSIVE Get(_, _)
Get(o, k) ==
  IF HasOwn(o, k)
  THEN o.v.fields[CHOOSE i \in 1..Len(o.v.fields) : o.v.fields[i].k = k].v
  ELSE IF o.v.proto.t = "undefined" THEN Undef
  ELSE Get(o.v.proto, k)

\* o[k] = x on the field list fs
Put(fs, k, x) ==
  IF \E i \in 1..Len(fs) : fs[i].k = k
  THEN [i \in 1..Len(fs) |-> IF fs[i].k = k THEN Field(k, x) ELSE fs[i]]
  ELSE Append(fs, Field(k, x))

\* object(x): classOf("Object") in "js", typeOf('object') in "es6"
object(x) == IF rev = "js" THEN classOf("Object", x) ELSE typeOf("object", x)

\* the fields of a value for (i in o) walks
OwnFields(o) ==
  IF o.t = "object" THEN o.v.fields
  ELSE IF o.t = "array"
  THEN [i \in 1..Len(o.v) |-> Field(NatToStr(i - 1), o.v[i])]
  ELSE <<>>

RECURSIVE objectOfLoop(_, _, _, _, _)
\* one turn of the loop, r the outcome of c(o[i])
objectOfStep(c, o, fs, i, acc, r) ==
  IF r.ok THEN objectOfLoop(c, o, fs, i + 1, Put(acc, fs[i].k, r.val)) ELSE r

\* for (i in o) { result[i] = c(o[i]); } return result;
objectOfLoop(c, o, fs, i, acc) ==
  IF i > Len(fs)
  THEN Ret(Rec(NewId, IF rev = "js" THEN o.v.proto ELSE o, acc))
  ELSE objectOfStep(c, o, fs, i, acc, Apply(c, fs[i].v))

\* objectOf(c)(o)
objectOf(c, o) ==
  IF ~object(o).ok THEN object(o)
  ELSE objectOfLoop(c, o, OwnFields(o), 1, <<>>)

\* the number a nat32 stands for
NatVal(n) == n.v.hi * Limb + n.v.lo

\* coprodn(cs): the checks made when the contract is built
coprodnNew(cs) == arrayOf(Fn("func"), cs)

\* What a coproduct call leaves: out the outcome, after the contents of
\* the array choice once the call is over.
coprodFail(choice, e) == [out |-> e, after |-> choice]

\* return [choice[0], r] in "js"; choice[1] = r; return choice in "es6":
\* r is the outcome of cs[choice[0]](choice[1])
coprodPick(choice, r) ==
  IF ~r.ok THEN coprodFail(choice, r)
  ELSE [out |-> Ret(Arr(<<choice.v[1], r.val>>)),
        after |-> IF rev = "js" THEN choice
                  ELSE Arr(<<choice.v[1], r.val>>)]

\* coprodn(cs)(choice)
coprodn(cs, choice) ==
  IF ~array(choice).ok THEN coprodFail(choice, array(choice))
  ELSE IF ~nat32(Arg(choice.v, 1)).ok
  THEN coprodFail(choice, nat32(Arg(choice.v, 1)))
  ELSE IF Len(choice.v) # 2
  THEN coprodFail(choice, TypeError("Expected [nat32, any]."))
  ELSE IF NatVal(choice.v[1]) >= Len(cs.v)
  THEN coprodFail(choice, TypeError("Tag out of range."))
  ELSE coprodPick(choice, Apply(cs.v[NatVal(choice.v[1]) + 1], choice.v[2]))

\* coprods(cs): the checks made when the contract is built
coprodsNew(cs) == objectOf(Fn("func"), cs)

\* coprods(cs)(choice).  "js" checks the tag with str, which it never
\* defines (see memoNew); "es6" checks it with string.
coprods(cs, choice) ==
  IF ~array(choice).ok THEN coprodFail(choice, array(choice))
  ELSE IF rev = "js" /\ ~strBound
  THEN coprodFail(choice, Throw(Err("ReferenceError", "str is not defined")))
  ELSE IF ~string(Arg(choice.v, 1)).ok
  THEN coprodFail(choice, string(Arg(choice.v, 1)))
  ELSE IF Len(choice.v) # 2
  THEN coprodFail(choice,
         TypeError(IF rev = "js" THEN "Expected [str, any]."
                   ELSE "Expected [string, any]."))
  ELSE IF ~HasOwn(cs, choice.v[1].v)
  THEN coprodFail(choice, TypeError("Unknown tag."))
  ELSE coprodPick(choice, Apply(Get(cs, choice.v[1].v), choice.v[2]))

---------------------------------------------------------------------------
(* prods. *)

RECURSIVE prodsNewLoop(_, _)
\* for (var i in cs) { func(cs[i]); }
prodsNewLoop(fs, i) ==
  IF i > Len(fs) THEN Ret(Undef)
  ELSE IF ~func(fs[i].v).ok THEN func(fs[i].v)
  ELSE prodsNewLoop(fs, i + 1)

\* prods(cs): the checks made when the contract is built
prodsNew(cs) ==
  IF ~object(cs).ok THEN object(cs) ELSE prodsNewLoop(OwnFields(cs), 1)

\* What prods(cs)(x) leaves: out the outcome, after the object x once the
\* call is over.
RECURSIVE prodsCopyLoop(_, _, _, _, _)
\* result[i] = r, r the outcome of cs[i](x[i])
prodsCopyStep(fs, x, proto, i, acc, r) ==
  IF ~r.ok THEN [out |-> r, after |-> x]
  ELSE prodsCopyLoop(fs, x, proto, i + 1, Put(acc, fs[i].k, r.val))

\* var result = create(proto); for (var i in cs) { ... } return result;
prodsCopyLoop(fs, x, proto, i, acc) ==
  IF i > Len(fs) THEN [out |-> Ret(Rec(NewId, proto, acc)), after |-> x]
  ELSE prodsCopyStep(fs, x, proto, i, acc, Apply(fs[i].v, Get(x, fs[i].k)))

RECURSIVE prodsPlaceLoop(_, _, _)
\* x[i] = r, r the outcome of cs[i](x[i])
prodsPlaceStep(fs, x, i, r) ==
  IF ~r.ok THEN [out |-> r, after |-> x]
  ELSE prodsPlaceLoop(fs, [x EXCEPT !.v.fields = Put(@, fs[i].k, r.val)],
                      i + 1)

\* for (let i in cs) { x[i] = cs[i](x[i]); } return x;
prodsPlaceLoop(fs, x, i) ==
  IF i > Len(fs) THEN [out |-> Ret(x), after |-> x]
  ELSE prodsPlaceStep(fs, x, i, Apply(fs[i].v, Get(x, fs[i].k)))

\* the in-place prods returning a copy
prodsReturnCopy(cs, x) ==
  IF ~object(x).ok THEN [out |-> object(x), after |-> x]
  ELSE IF rev = "js"
  THEN prodsCopyLoop(OwnFields(cs), x, x.v.proto, 1, <<>>)
  ELSE LET r == prodsPlaceLoop(OwnFields(cs), x, 1)
       IN  IF r.out.ok
           THEN [out |-> Ret([r.after EXCEPT !.v.id = NewId]), after |-> x]
           ELSE r

\* prods(cs)(x): "js" fills a new object made by create(gpo(x)); "es6"
\* writes into x and returns x.
prods(cs, x) ==
  IF ~object(x).ok THEN [out |-> object(x), after |-> x]
  ELSE IF rev = "js"
  THEN prodsCopyLoop(OwnFields(cs), x, x.v.proto, 1, <<>>)
  ELSE prodsPlaceLoop(OwnFields(cs), x, 1)

\* prods(cs)(x) of the third copy: it fills a new object made by create(x)
prodsVar(cs, x) ==
  IF ~object(x).ok THEN [out |-> object(x), after |-> x]
  ELSE prodsCopyLoop(OwnFields(cs), x, x, 1, <<>>)

---------------------------------------------------------------------------
(* intersect. *)

\* intersect(cs): the checks made when the contract is built
intersectNew(cs) == arrayOf(Fn("func"), cs)

RECURSIVE intersectLoop(_, _, _, _)
\* result = r, r the outcome of cs[i](result)
intersectStep(cs, x, i, r) ==
  IF ~r.ok THEN [out |-> r, applied |-> i, after |-> x]
  ELSE intersectLoop(cs, x, i + 1, r.val)

\* the for loop of intersect and the return after it: result runs through
\* the contracts in order
intersectLoop(cs, x, i, result) ==
  IF i > Len(cs) THEN [out |-> Ret(result), applied |-> i - 1, after |-> x]
  ELSE intersectStep(cs, x, i, Apply(cs[i], result))

\* intersect(cs)(x)
intersect(cs, x) == intersectLoop(cs.v, x, 1, x)

---------------------------------------------------------------------------
(* union. *)

\* union(cs): the checks made when the contract is built
unionNew(cs) == arrayOf(Fn("func"), cs)

RECURSIVE unionLoop(_, _, _)
\* try { return cs[i](x); } catch (e) { }: r is the outcome of cs[i](x)
unionTry(cs, x, i, r) ==
  IF r.ok THEN [out |-> r, applied |-> i, after |-> x]
  ELSE unionLoop(cs, x, i + 1)

\* the for loop of union and the throw after it; applied is the number of
\* contracts applied
unionLoop(cs, x, i) ==
  IF i > Len(cs)
  THEN [out |-> TypeError("No match among unioned types."),
        applied |-> i - 1, after |-> x]
  ELSE unionTry(cs, x, i, Apply(cs[i], x))

\* union without the try: the first failure reaches the caller
unionNoCatch(cs, x) ==
  IF Len(cs.v) = 0
  THEN [out |-> TypeError("No match among unioned types."),
        applied |-> 0, after |-> x]
  ELSE [out |-> Apply(cs.v[1], x), applied |-> 1, after |-> x]

\* union(cs)(x)
union(cs, x) == unionLoop(cs.v, x, 1)

---------------------------------------------------------------------------
(* pbn. *)

\* pbn(fs): var c = prodn(fs)
pbnNew(fs) == prodnNew(fs)

\* the for loop of pbn from index i (1-based here) and the return after it:
\* result is what c(args) returned, after the contents of args by then
RECURSIVE pbnLoop(_, _, _, _)
pbnLoop(result, i, after, applied) ==
  IF i > Len(result)
  THEN [out |-> Ret(after), applied |-> applied, after |-> after]
  ELSE IF ~StrictEq(result[i], result[1])
  THEN [out |-> TypeError("Failed to match pullback constraint in position "
                          \o NatToStr(i - 1)),
        applied |-> applied, after |-> after]
  ELSE pbnLoop(result, i + 1, after, applied)

\* r is what c(args) did
pbnCheck(r) ==
  IF ~r.out.ok THEN r
  ELSE pbnLoop(r.out.val.v, 2, r.after, r.applied)

\* pbn whose loop starts one position late
pbnSkipFirst(fs, args) ==
  IF ~array(args).ok THEN prodnFail(args, array(args))
  ELSE LET r == prodn(fs.v, args)
       IN  IF ~r.out.ok THEN r
           ELSE pbnLoop(r.out.val.v, 3, r.after, r.applied)

\* pbn(fs)(args)
pbn(fs, args) ==
  IF ~array(args).ok THEN prodnFail(args, array(args))
  ELSE pbnCheck(prodn(fs.v, args))

---------------------------------------------------------------------------
(* Callables handed to hom, self and memo by the caller. *)

\* function (n1, n2) { return n1 + n2; }
addBody(args) == Plus(Arg(args, 1), Arg(args, 2))

\* function (b1, b2) { return b1 && b2; }
andBody(args) ==
  IF Truthy(Arg(args, 1)) THEN Arg(args, 2) ELSE Arg(args, 1)

\* middle.apply(recv, args) with the cell at cnt: the outcome and the cell
\* afterwards.  tick is a callable with a side effect: it returns the cell
\* and increments it; boom throws; again is tick that may call the
\* memoized function made of it before it returns (see MemoEnter).
CallMiddle(f, recv, args, cnt) ==
  CASE f.v.name = "add" -> [out |-> Ret(addBody(args)), count |-> cnt]
    [] f.v.name = "and" -> [out |-> Ret(andBody(args)), count |-> cnt]
    [] f.v.name \in {"tick", "again"} ->
         [out |-> Ret(N(cnt)), count |-> cnt + 1]
    [] f.v.name = "boom" -> [out |-> Throw(Err("Error", "boom")), count |-> cnt]
    [] OTHER -> [out |-> Apply(f, Arg(args, 1)), count |-> cnt]

---------------------------------------------------------------------------
(* hom and self. *)

NoComb == [kind |-> "none", cs |-> Undef]

NoHom == [live |-> FALSE, params |-> <<>>, post |-> Undef]
NoGuarded ==
  [kind |-> "none", params |-> <<>>, post |-> Undef, f |-> Undef, c |-> Undef]

\* slice(arguments, 0, arguments.length - 1)
homInputs(argv) ==
  IF Len(argv) = 0 THEN <<>> ELSE SubSeq(argv, 1, Len(argv) - 1)

\* var postcond = func(arguments[arguments.length - 1]), p its outcome
homNewPost(ins, p) ==
  IF ~p.ok THEN [out |-> p, h |-> NoHom]
  ELSE [out |-> Ret(Fn("homab")),
        h |-> [live |-> TRUE, params |-> ins, post |-> p.val]]

\* var precond = prodn(a), a the outcome of arrayOf(func)(slice(...))
homNewPre(argv, a) ==
  IF ~a.ok THEN [out |-> a, h |-> NoHom]
  ELSE IF ~prodnNew(a.val).ok THEN [out |-> prodnNew(a.val), h |-> NoHom]
  ELSE homNewPost(a.val.v,
                  func(IF Len(argv) = 0 THEN Undef ELSE argv[Len(argv)]))

\* hom(argv[1], ..., argv[n]): the checks made when the function contract
\* is built, and the precondition's contracts and the postcondition it keeps
homNew(argv) == homNewPre(argv, arrayOf(Fn("func"), Arr(homInputs(argv))))

\* homab(middle)
homGuard(h, middle) ==
  IF ~func(middle).ok THEN [out |-> func(middle), g |-> NoGuarded]
  ELSE [out |-> Ret(Fn("guarded")),
        g |-> [kind |-> "fn", params |-> h.params, post |-> h.post,
               f |-> middle, c |-> Undef]]

\* the applications of the first k parameter contracts, in order
ParamSteps(k) == [i \in 1..k |-> "param" \o NatToStr(i - 1)]

\* One run of middle, as the guard saw it.
Invocation(recv, args, out) == [recv |-> recv, args |-> args, out |-> out]

\* postcond(mid), mid what middle.apply(recv, args) did
homPost(g, recv, args, mid) ==
  [out |-> IF mid.out.ok THEN Apply(g.post, mid.out.val) ELSE mid.out,
   inv |-> <<Invocation(recv, args, mid.out)>>,
   count |-> mid.count,
   steps |-> ParamSteps(Len(args))
               \o (IF mid.out.ok THEN <<"middle", "post">> ELSE <<"middle">>)]

\* middle.apply(this, pre), pre what precond(slice(arguments)) did
homMiddle(g, recv, cnt, pre) ==
  IF ~pre.out.ok
  THEN [out |-> pre.out, inv |-> <<>>, count |-> cnt,
        steps |-> ParamSteps(pre.applied)]
  ELSE homPost(g, recv, pre.out.val.v,
               CallMiddle(g.f, recv, pre.out.val.v, cnt))

\* the guarded callable invoking middle on the actual arguments as given
homCallRaw(g, recv, args, cnt) ==
  LET pre == prodn(g.params, Arr(args))
  IN  IF ~pre.out.ok
      THEN [out |-> pre.out, inv |-> <<>>, count |-> cnt,
            steps |-> ParamSteps(pre.applied)]
      ELSE LET mid == CallMiddle(g.f, recv, args, cnt)
           IN  [out |-> IF mid.out.ok THEN Apply(g.post, mid.out.val)
                        ELSE mid.out,
                inv |-> <<Invocation(recv, args, mid.out)>>,
                count |-> mid.count,
                steps |-> ParamSteps(Len(args)) \o <<"middle", "post">>]

\* the guarded callable invoking middle although the precondition threw
homCallAnyway(g, recv, args, cnt) ==
  LET pre == prodn(g.params, Arr(args))
      use == IF pre.out.ok THEN pre.out.val.v ELSE args
      mid == CallMiddle(g.f, recv, use, cnt)
  IN  [out |-> IF mid.out.ok THEN Apply(g.post, mid.out.val) ELSE mid.out,
       inv |-> <<Invocation(recv, use, mid.out)>>,
       count |-> mid.count,
       steps |-> ParamSteps(pre.applied) \o <<"middle", "post">>]

\* the guarded callable undoing middle's write to the cell when the
\* postcondition throws
homCallRollback(g, recv, args, cnt) ==
  LET pre == prodn(g.params, Arr(args))
  IN  IF ~pre.out.ok
      THEN [out |-> pre.out, inv |-> <<>>, count |-> cnt,
            steps |-> ParamSteps(pre.applied)]
      ELSE LET mid == CallMiddle(g.f, recv, pre.out.val.v, cnt)
               post == IF mid.out.ok THEN Apply(g.post, mid.out.val)
                       ELSE mid.out
           IN  [out |-> post,
                inv |-> <<Invocation(recv, pre.out.val.v, mid.out)>>,
                count |-> IF post.ok THEN mid.count ELSE cnt,
                steps |-> ParamSteps(pre.applied) \o <<"middle", "post">>]

\* The guarded callable called on receiver recv with the arguments args,
\* the cell at cnt:
\*   postcond(middle.apply(this, precond(slice(arguments))))
\* out is the outcome, inv the runs of middle, count the cell afterwards.
homCall(g, recv, args, cnt) ==
  homMiddle(g, recv, cnt, prodn(g.params, Arr(args)))

\* the function self returns around m, the outcome of homab(method)
selfWrap(c, m) ==
  IF ~m.out.ok THEN m
  ELSE [out |-> Ret(Fn("method")),
        g |-> [m.g EXCEPT !.kind = "method", !.c = c]]

\* homab.self(c)(method).  In "js" self is a function and hom binds its
\* this to homab.  In "es6" self is an arrow function: bind cannot set its
\* this, homab is the this of the enclosing script, which is no function,
\* and homab(method) throws.
selfNew(h, c, method) ==
  IF ~func(c).ok THEN [out |-> func(c), g |-> NoGuarded]
  ELSE IF rev = "es6"
  THEN [out |-> TypeError("homab is not a function"), g |-> NoGuarded]
  ELSE selfWrap(c, homGuard(h, method))

\* the self-bound method skipping the receiver contract
selfCallUnchecked(g, recv, args, cnt) == homCall(g, recv, args, cnt)

\* the self-bound method checking its receiver after the guarded method
\* ran
selfCallLate(g, recv, args, cnt) ==
  LET r == homCall(g, recv, args, cnt)
  IN  [r EXCEPT !.steps = @ \o <<"recv">>,
                !.out = IF r.out.ok /\ ~Apply(g.c, recv).ok
                        THEN Apply(g.c, recv) ELSE @]

\* method.apply(r, arguments), r the outcome of c(this)
selfApply(g, args, cnt, r) ==
  IF ~r.ok THEN [out |-> r, inv |-> <<>>, count |-> cnt, steps |-> <<"recv">>]
  ELSE [homCall(g, r.val, args, cnt) EXCEPT !.steps = <<"recv">> \o @]

\* The self-bound method called on recv: method.apply(c(this), arguments)
selfCall(g, recv, args, cnt) ==
  selfApply(g, args, cnt, Apply(g.c, recv))

---------------------------------------------------------------------------
(* memo. *)

EmptyCache == [k \in {} |-> Undef]
NoMemo ==
  [live |-> FALSE, g |-> NoGuarded, cache |-> EmptyCache, pending |-> <<>>]

\* this of a plain call f(x) of a function of a non-strict script
GlobalThis == Obj(0, "global")

\* var memo = {} / new Map() around g, the outcome of hom(...)(c)
memoWrap(g) ==
  IF ~g.out.ok THEN [out |-> g.out, m |-> NoMemo]
  ELSE [out |-> Ret(Fn("memoized")),
        m |-> [live |-> TRUE, g |-> g.g, cache |-> EmptyCache,
               pending |-> <<>>]]

\* memo(c): c = hom(str, any)(c) in "js", hom(any, any)(c) in "es6", and an
\* empty cache.  "js" never defines str: the call throws a ReferenceError
\* unless the host's global scope binds str (to the string contract).
memoNew(c) ==
  IF rev = "js" /\ ~strBound
  THEN [out |-> Throw(Err("ReferenceError", "str is not defined")),
        m |-> NoMemo]
  ELSE memoWrap(homGuard(homNew(<<IF rev = "js" THEN Fn("string")
                                  ELSE Fn("any"), Fn("any")>>).h, c))

\* The cache key of the argument s: "$" + str(s) in "js", s itself in "es6".
memoKey(s) == IF rev = "js" THEN Str("$" \o ToStr(s)) ELSE s

\* the cache miss storing whatever c(s) did, a failure included
memoMissStoreFailure(ms, i, s, r) ==
  [out |-> IF rev = "js" \/ ~r.out.ok THEN r.out ELSE Ret(s),
   memos |-> [ms EXCEPT ![i].cache = (memoKey(s) :> r.out.val) @@ @],
   inv |-> r.inv, count |-> r.count]

\* The cache miss: r is what c(s) did.  "js" stores and returns the value;
\* "es6" stores the value and returns the key.
memoMiss(ms, i, s, r) ==
  IF ~r.out.ok
  THEN [out |-> r.out, memos |-> ms, inv |-> r.inv, count |-> r.count]
  ELSE [out |-> IF rev = "js" THEN r.out ELSE Ret(s),
        memos |-> [ms EXCEPT ![i].cache = (memoKey(s) :> r.out.val) @@ @],
        inv |-> r.inv, count |-> r.count]

\* the memoized function keeping one cache for every memoizer
memoCallShared(ms, i, s, cnt) ==
  LET m == ms[i]
  IN  IF rev = "js" /\ ~string(s).ok
      THEN [out |-> string(s), memos |-> ms, inv |-> <<>>, count |-> cnt]
      ELSE IF memoKey(s) \in DOMAIN m.cache
      THEN [out |-> Ret(m.cache[memoKey(s)]), memos |-> ms, inv |-> <<>>,
            count |-> cnt]
      ELSE LET r == homCall(m.g, GlobalThis, <<s>>, cnt)
           IN  IF ~r.out.ok
               THEN [out |-> r.out, memos |-> ms, inv |-> r.inv,
                     count |-> r.count]
               ELSE [out |-> IF rev = "js" THEN r.out ELSE Ret(s),
                     memos |-> [j \in DOMAIN ms |->
                                  IF ms[j].live
                                  THEN [ms[j] EXCEPT !.cache =
                                          (memoKey(s) :> r.out.val) @@ @]
                                  ELSE ms[j]],
                     inv |-> r.inv, count |-> r.count]

\* the memoized function storing the key where the computed value belongs
memoCallStoreKey(ms, i, s, cnt) ==
  LET m == ms[i]
  IN  IF rev = "js" /\ ~string(s).ok
      THEN [out |-> string(s), memos |-> ms, inv |-> <<>>, count |-> cnt]
      ELSE IF memoKey(s) \in DOMAIN m.cache
      THEN [out |-> Ret(m.cache[memoKey(s)]), memos |-> ms, inv |-> <<>>,
            count |-> cnt]
      ELSE LET r == homCall(m.g, GlobalThis, <<s>>, cnt)
           IN  IF ~r.out.ok
               THEN [out |-> r.out, memos |-> ms, inv |-> r.inv,
                     count |-> r.count]
               ELSE [out |-> IF rev = "js" THEN r.out ELSE Ret(s),
                     memos |-> [ms EXCEPT ![i].cache = (memoKey(s) :> s) @@ @],
                     inv |-> r.inv, count |-> r.count]

\* The memoized function ms[i] called on s, the cell at cnt.
\*   "js":  var key = "$" + str(s);
\*          if (key in memo) { return memo[key]; }
\*          return memo[key] = c(s);
\*   "es6": if (memo.has(key)) { return memo.get(key); }
\*          memo.set(key, c(key));
\*          return key;
\* out is the outcome, memos the memoizers afterwards, inv the runs of the
\* wrapped callable, count the cell afterwards.
memoCall(ms, i, s, cnt) ==
  IF rev = "js" /\ ~string(s).ok
  THEN [out |-> string(s), memos |-> ms, inv |-> <<>>, count |-> cnt]
  ELSE IF memoKey(s) \in DOMAIN ms[i].cache
  THEN [out |-> Ret(ms[i].cache[memoKey(s)]), memos |-> ms, inv |-> <<>>,
        count |-> cnt]
  ELSE memoMiss(ms, i, s, homCall(ms[i].g, GlobalThis, <<s>>, cnt))

\* The call ms[i](s) has reached c(s): the wrapped callable runs on s.
memoPush(ms, i, s) == [ms EXCEPT ![i].pending = Append(@, s)]

\* The innermost running call of ms[i] leaves the callable.
memoPop(ms, i) ==
  [ms EXCEPT ![i].pending = SubSeq(@, 1, Len(@) - 1)]

\* the entry of the memoized function reserving the key before c(s) runs
memoEnterReserve(ms, i, s) ==
  IF rev = "js" /\ ~string(s).ok
  THEN [entered |-> FALSE, out |-> string(s), memos |-> ms]
  ELSE IF memoKey(s) \in DOMAIN ms[i].cache
  THEN [entered |-> FALSE, out |-> Ret(ms[i].cache[memoKey(s)]),
        memos |-> ms]
  ELSE [entered |-> TRUE, out |-> Ret(Undef),
        memos |-> [memoPush(ms, i, s) EXCEPT
                     ![i].cache = (memoKey(s) :> Undef) @@ @]]

\* The memoized function ms[i] called on s, up to the point where the
\* wrapped callable is running: the key, the lookup, the precondition of
\* the guard (string in "js", any in "es6", both returning s itself) and
\* the entry into c.  entered tells whether c(s) is now running; otherwise
\* out is what the call did.
memoEnter(ms, i, s) ==
  IF rev = "js" /\ ~string(s).ok
  THEN [entered |-> FALSE, out |-> string(s), memos |-> ms]
  ELSE IF memoKey(s) \in DOMAIN ms[i].cache
  THEN [entered |-> FALSE, out |-> Ret(ms[i].cache[memoKey(s)]),
        memos |-> ms]
  ELSE IF ~prodn(ms[i].g.params, Arr(<<s>>)).out.ok
  THEN [entered |-> FALSE, out |-> prodn(ms[i].g.params, Arr(<<s>>)).out,
        memos |-> ms]
  ELSE [entered |-> TRUE, out |-> Ret(Undef), memos |-> memoPush(ms, i, s)]

\* The innermost running call of ms[i], on s, goes on from the return of
\* the wrapped callable: the postcondition, memo[key] = ... / memo.set, and
\* the return.
memoReturn(ms, i, s, cnt) ==
  memoMiss(memoPop(ms, i), i, s,
           homPost(ms[i].g, GlobalThis, <<s>>,
                   CallMiddle(ms[i].g.f, GlobalThis, <<s>>, cnt)))

---------------------------------------------------------------------------
(* The inputs the operations are driven with. *)

SeqsUpTo(S, n) == UNION {[1..k -> S] : k \in 0..n}

NotAFunction == N(3)
ParamPool == {Fn("int32"), Fn("mod2"), Opt(Fn("int32"))}
PostPool == {Fn("int32"), Fn("boolean")}
Middles == {Fn("add"), Fn("and"), Fn("tick")}
RecvContracts == {Fn("isFoo"), Fn("any")}
Receivers == {Obj(1, "Foo"), Obj(2, "Object")}
ArgVals == {N(3), N(4), Str("4")}
ProdPool == {Fn("int32"), Fn("mod2"), Fn("nat32")}
MemoIds == {1, 2}
MemoFns == {Fn("add"), Fn("tick"), Fn("boom"), Fn("again")}
MemoArgs == {Str("a"), Str("4"), N(3)}

\* argument lists of hom: parameter contracts, then the result contract
\* descriptors of the positional combinators
Descriptors ==
  {Arr(s) : s \in SeqsUpTo(ProdPool \cup {NotAFunction}, MaxParams)}
    \cup {NotAFunction}

\* descriptors of the named combinators
NamedDescriptors ==
  {Rec(1, Undef, <<>>),
   Rec(1, Undef, <<Field("a", Fn("int32"))>>),
   Rec(1, Undef, <<Field("a", Fn("int32")), Field("b", Fn("mod2"))>>),
   Rec(1, Undef, <<Field("a", Fn("mod2")), Field("b", Fn("any"))>>),
   Rec(1, Undef, <<Field("a", NotAFunction)>>),
   NotAFunction}

\* members of unions and intersections: never always throws, K7 is K(7)
AltPool == {Fn("int32"), Fn("mod2"), Fn("never"), Fn("K7")}

AltDescriptors ==
  {Arr(s) : s \in SeqsUpTo(AltPool, MaxParams)} \cup {Arr(<<NotAFunction>>)}

\* a prototype with a field of its own
Proto == Rec(5, Undef, <<Field("b", N(4))>>)

\* records given to a named product, and a value that is none
Records ==
  {Rec(2, p, fs) :
     p \in {Undef, Proto},
     fs \in {<<>>, <<Field("a", N(3))>>, <<Field("a", Str("4"))>>,
             <<Field("b", N(3))>>,
             <<Field("a", N(3)), Field("b", N(3))>>,
             <<Field("a", N(4)), Field("b", N(3)), Field("c", N(4))>>}}
    \cup {Str("4")}

\* values given to int32 and nat32: around both ends of the signed 32-bit
\* range, beyond 2^32, halves, NaN, and values that are no numbers
NumVals ==
  {N(0), N(3), N(0 - 1), N(0 - 4), Num(Limb \div 2 - 1, Limb - 1),
   Num(Limb \div 2, 0), Num(0 - Limb \div 2, 0),
   Num(0 - Limb \div 2 - 1, Limb - 1), Num(Limb, 3), Half(0, 3),
   Half(0 - 1, Limb - 1), Half(0 - 1, Limb - 4), NaN, Str("4"), Bool(TRUE),
   Undef}

\* tagged pairs, and arrays that are none
Choices ==
  {Arr(<<tag, v>>) : tag \in {N(0), N(1), N(2), N(3), N(0 - 1), Str("a"),
                               Str("b"), Str("c")},
                     v \in ArgVals}
    \cup {Arr(<<>>), Arr(<<N(1)>>), Arr(<<Str("a")>>),
          Arr(<<N(1), N(3), N(4)>>), Arr(<<Str("a"), N(3), N(4)>>), Str("4")}

HomArgvs ==
  {<<>>} \cup
  {ps \o <<r>> : ps \in SeqsUpTo(ParamPool \cup {NotAFunction}, MaxParams),
                 r \in PostPool \cup {NotAFunction}}

ArgLists == SeqsUpTo(ArgVals, MaxArgs)

---------------------------------------------------------------------------
(* The state machine: one action per operation of the library. *)

Op(op, who, recv, args, out, inv, c0) ==
  [op |-> op, who |-> who, recv |-> recv, args |-> args, out |-> out,
   inv |-> inv, count0 |-> c0]

Init ==
  /\ rev \in {"js", "es6"}
  /\ strBound \in (IF rev = "js" THEN BOOLEAN ELSE {FALSE})
  /\ homab = NoHom
  /\ guarded = NoGuarded
  /\ prod = [live |-> FALSE, cs |-> <<>>]
  /\ comb = NoComb
  /\ memos = [i \in MemoIds |-> NoMemo]
  /\ count = 0
  /\ trace = <<>>
  /\ seen = [i \in MemoIds |-> EmptyCache]
  /\ last = Op("init", 0, Undef, <<>>, Ret(Undef), <<>>, 0)

\* hom(argv...)
HomNew(argv) ==
  /\ last.op = "init"
  /\ homab' = homNew(argv).h
  /\ last' = Op("hom", 0, Undef, argv, homNew(argv).out, <<>>, count)
  /\ UNCHANGED <<rev, strBound, guarded, prod, comb, memos, count, seen,
                 trace>>

\* homab(middle)
Guard(middle) ==
  /\ last.op = "hom"
  /\ homab.live
  /\ guarded' = homGuard(homab, middle).g
  /\ last' = Op("guard", 0, Undef, <<middle>>, homGuard(homab, middle).out,
                <<>>, count)
  /\ UNCHANGED <<rev, strBound, homab, prod, comb, memos, count, seen, trace>>

\* r is what homab.self(c)(method) did
Bound(r, c, method) ==
  /\ guarded' = r.g
  /\ last' = Op("self", 0, Undef, <<c, method>>, r.out, <<>>, count)

\* homab.self(c)(method)
SelfBind(c, method) ==
  /\ last.op = "hom"
  /\ homab.live
  /\ Bound(selfNew(homab, c, method), c, method)
  /\ UNCHANGED <<rev, strBound, homab, prod, comb, memos, count, seen, trace>>

\* r is what the call did: the cell and the record of the call
Called(op, recv, args, r) ==
  /\ r.count <= MaxCount
  /\ count' = r.count
  /\ trace' = r.steps
  /\ last' = Op(op, 0, recv, args, r.out, r.inv, count)

\* guarded.apply(recv, args)
Call(recv, args) ==
  /\ last.op = "guard"
  /\ guarded.kind = "fn"
  /\ Called("call", recv, args, homCall(guarded, recv, args, count))
  /\ UNCHANGED <<rev, strBound, homab, guarded, prod, comb, memos, seen>>

\* method.apply(recv, args) for the self-bound method
CallMethod(recv, args) ==
  /\ last.op = "self"
  /\ guarded.kind = "method"
  /\ Called("mcall", recv, args, selfCall(guarded, recv, args, count))
  /\ UNCHANGED <<rev, strBound, homab, guarded, prod, comb, memos, seen>>

\* r is the outcome of the checks of prodn(cs)
ProdnMade(cs, r) ==
  /\ prod' = [live |-> r.ok, cs |-> IF r.ok THEN cs.v ELSE <<>>]
  /\ last' = Op("prodn", 0, Undef, <<cs>>, r, <<>>, count)

\* prodn(cs)
ProdnNew(cs) ==
  /\ last.op = "init"
  /\ ProdnMade(cs, prodnNew(cs))
  /\ UNCHANGED <<rev, strBound, homab, guarded, comb, memos, count, seen,
                 trace>>

\* r is what prodn(cs)(x) did
ProdnCalled(x, r) ==
  last' = Op("prodnCall", r.applied, r.after, <<x>>, r.out, <<>>, count)

\* prodn(cs)(x); recv records the contents of x after the call
ProdnCall(x) ==
  /\ last.op = "prodn"
  /\ prod.live
  /\ ProdnCalled(x, prodn(prod.cs, x))
  /\ UNCHANGED <<rev, strBound, homab, guarded, prod, comb, memos, count,
                 seen, trace>>

\* comb = the contract kind(cs) builds, r the outcome of its checks
CombMade(kind, cs, r) ==
  /\ comb' = IF r.ok THEN [kind |-> kind, cs |-> cs] ELSE NoComb
  /\ last' = Op(kind, 0, Undef, <<cs>>, r, <<>>, count)
  /\ UNCHANGED <<rev, strBound, homab, guarded, prod, memos, count, seen,
                 trace>>

\* r is what comb(x) did; recv records the contents of x after the call
CombCalled(op, x, r) ==
  /\ last' = Op(op, 0, r.after, <<x>>, r.out, <<>>, count)
  /\ UNCHANGED <<rev, strBound, homab, guarded, prod, comb, memos, count,
                 seen, trace>>

\* r is what comb(x) did; who records the number of contracts applied
CombApplied(op, x, r) ==
  /\ last' = Op(op, r.applied, r.after, <<x>>, r.out, <<>>, count)
  /\ UNCHANGED <<rev, strBound, homab, guarded, prod, comb, memos, count,
                 seen, trace>>

\* union(cs)
UnionNew(cs) ==
  /\ last.op = "init"
  /\ CombMade("union", cs, unionNew(cs))

\* union(cs)(x)
UnionCall(x) ==
  /\ last.op = "union"
  /\ comb.kind = "union"
  /\ CombApplied("unionCall", x, union(comb.cs, x))

\* pbn(fs)
PbnNew(fs) ==
  /\ last.op = "init"
  /\ CombMade("pbn", fs, pbnNew(fs))

\* pbn(fs)(args)
PbnCall(args) ==
  /\ last.op = "pbn"
  /\ comb.kind = "pbn"
  /\ CombApplied("pbnCall", args, pbn(comb.cs, args))

\* prods(cs) of the revision loaded
ProdsNew(cs) ==
  /\ last.op = "init"
  /\ CombMade("prods", cs, prodsNew(cs))

\* prods(cs)(x)
ProdsCall(x) ==
  /\ last.op = "prods"
  /\ comb.kind = "prods"
  /\ CombCalled("prodsCall", x, prods(comb.cs, x))

\* prods(cs) of the third copy
ProdsVarNew(cs) ==
  /\ last.op = "init"
  /\ rev = "es6"
  /\ CombMade("prodsVar", cs, prodsNew(cs))

\* prods(cs)(x) of the third copy
ProdsVarCall(x) ==
  /\ last.op = "prodsVar"
  /\ comb.kind = "prodsVar"
  /\ CombCalled("prodsVarCall", x, prodsVar(comb.cs, x))

\* c(x) for a primitive contract c
Prim(c, x) ==
  /\ last.op = "init"
  /\ last' = Op("prim", 0, Undef, <<c, x>>, Apply(c, x), <<>>, count)
  /\ UNCHANGED <<rev, strBound, homab, guarded, prod, comb, memos, count,
                 seen, trace>>

\* intersect(cs)
IntersectNew(cs) ==
  /\ last.op = "init"
  /\ CombMade("intersect", cs, intersectNew(cs))

\* intersect(cs)(x)
IntersectCall(x) ==
  /\ last.op = "intersect"
  /\ comb.kind = "intersect"
  /\ CombApplied("intersectCall", x, intersect(comb.cs, x))

\* arrayOf(c)
ArrayOfNew(c) ==
  /\ last.op = "init"
  /\ CombMade("arrayOf", c, arrayOfNew(c))

\* arrayOf(c)(a)
ArrayOfCall(a) ==
  /\ last.op = "arrayOf"
  /\ comb.kind = "arrayOf"
  /\ CombApplied("arrayOfCall", a, arrayOfRun(comb.cs, a))

\* coprodn(cs)
CoprodnNew(cs) ==
  /\ last.op = "init"
  /\ CombMade("coprodn", cs, coprodnNew(cs))

\* coprodn(cs)(choice)
CoprodnCall(choice) ==
  /\ last.op = "coprodn"
  /\ comb.kind = "coprodn"
  /\ CombCalled("coprodnCall", choice, coprodn(comb.cs, choice))

\* coprods(cs)
CoprodsNew(cs) ==
  /\ last.op = "init"
  /\ CombMade("coprods", cs, coprodsNew(cs))

\* coprods(cs)(choice)
CoprodsCall(choice) ==
  /\ last.op = "coprods"
  /\ comb.kind = "coprods"
  /\ CombCalled("coprodsCall", choice, coprods(comb.cs, choice))

\* no call of a memoized function is in progress
Idle == \A j \in MemoIds : memos[j].pending = <<>>

\* r is what memo(c) did
MemoMade(i, c, r) ==
  /\ memos' = [memos EXCEPT ![i] = r.m]
  /\ last' = Op("memo", i, Undef, <<c>>, r.out, <<>>, count)

\* memos[i] = memo(c)
MemoNew(i, c) ==
  /\ last.op \in {"init", "memo", "memoCall"}
  /\ Idle
  /\ ~memos[i].live
  /\ MemoMade(i, c, memoNew(c))
  /\ UNCHANGED <<rev, strBound, homab, guarded, prod, comb, count, seen,
                 trace>>

\* r is what memos[i](s) did
MemoCalled(i, s, r) ==
  /\ r.count <= MaxCount
  /\ s \in DOMAIN seen[i] => seen[i][s].runs + Len(r.inv) <= MaxCount
  /\ memos' = r.memos
  /\ count' = r.count
  /\ seen' = [seen EXCEPT ![i] =
                IF s \in DOMAIN @
                THEN [@ EXCEPT ![s].runs = @ + Len(r.inv)]
                ELSE (s :> [first |-> r.out, runs |-> Len(r.inv)]) @@ @]
  /\ last' = Op("memoCall", i, GlobalThis, <<s>>, r.out, r.inv, count)

\* memos[i](s)
MemoCall(i, s) ==
  /\ last.op \in {"memo", "memoCall"}
  /\ Idle
  /\ memos[i].live
  /\ MemoCalled(i, s, memoCall(memos, i, s, count))
  /\ UNCHANGED <<rev, strBound, homab, guarded, prod, comb, trace>>

\* the outcome seen holds for a call that has not returned yet
InProgress == Throw(Err("InProgress", "the call has not returned"))

IsInProgress(o) ==
  ~o.ok /\ o.val.t = "error" /\ o.val.v.name = "InProgress"

\* r is what the entry of memos[i](s) did
MemoEntered(i, s, r) ==
  /\ (r.entered /\ s \in DOMAIN seen[i]) => seen[i][s].runs < MaxCount
  /\ memos' = r.memos
  /\ seen' = [seen EXCEPT ![i] =
                IF s \in DOMAIN @
                THEN [@ EXCEPT ![s].runs = IF r.entered THEN @ + 1 ELSE @]
                ELSE (s :> [first |-> IF r.entered THEN InProgress
                                      ELSE r.out,
                            runs |-> IF r.entered THEN 1 ELSE 0]) @@ @]
  /\ last' = IF r.entered
             THEN Op("memoEnter", i, GlobalThis, <<s>>, r.out, <<>>, count)
             ELSE Op("memoCall", i, GlobalThis, <<s>>, r.out, <<>>, count)

\* memos[i](s), called by the program or by the running callable again,
\* up to the point where the wrapped callable runs
MemoEnter(i, s) ==
  /\ last.op \in {"memo", "memoCall", "memoEnter"}
  /\ memos[i].live
  /\ memos[i].g.f = Fn("again")
  /\ \A j \in MemoIds \ {i} : memos[j].pending = <<>>
  /\ Len(memos[i].pending) < MaxDepth
  /\ MemoEntered(i, s, memoEnter(memos, i, s))
  /\ UNCHANGED <<rev, strBound, homab, guarded, prod, comb, count, trace>>

\* r is what the rest of the innermost running call memos[i](s) did
MemoReturned(i, s, r) ==
  /\ r.count <= MaxCount
  /\ memos' = r.memos
  /\ count' = r.count
  /\ seen' = [seen EXCEPT ![i][s].first =
                IF IsInProgress(@) THEN r.out ELSE @]
  /\ last' = Op("memoCall", i, GlobalThis, <<s>>, r.out, r.inv, count)

\* the wrapped callable of the innermost running call of memos[i] returns
MemoReturn(i) ==
  /\ memos[i].pending # <<>>
  /\ MemoReturned(i, memos[i].pending[Len(memos[i].pending)],
                  memoReturn(memos, i,
                             memos[i].pending[Len(memos[i].pending)],
                             count))
  /\ UNCHANGED <<rev, strBound, homab, guarded, prod, comb, trace>>

Next ==
  \/ \E argv \in HomArgvs : HomNew(argv)
  \/ \E middle \in Middles \cup {NotAFunction} : Guard(middle)
  \/ \E c \in RecvContracts \cup {NotAFunction}, m \in Middles :
       SelfBind(c, m)
  \/ \E recv \in Receivers, args \in ArgLists : Call(recv, args)
  \/ \E recv \in Receivers, args \in ArgLists : CallMethod(recv, args)
  \/ \E cs \in Descriptors : ProdnNew(cs)
  \/ \E x \in {Arr(s) : s \in ArgLists} \cup {Str("4")} : ProdnCall(x)
  \/ \E cs \in Descriptors : CoprodnNew(cs)
  \/ \E choice \in Choices : CoprodnCall(choice)
  \/ \E cs \in NamedDescriptors : CoprodsNew(cs)
  \/ \E cs \in NamedDescriptors : ProdsNew(cs)
  \/ \E x \in Records : ProdsCall(x)
  \/ \E cs \in NamedDescriptors : ProdsVarNew(cs)
  \/ \E x \in Records : ProdsVarCall(x)
  \/ \E c \in {Fn("int32"), Fn("nat32")}, x \in NumVals : Prim(c, x)
  \/ \E cs \in AltDescriptors : UnionNew(cs)
  \/ \E cs \in AltDescriptors : IntersectNew(cs)
  \/ \E x \in ArgVals \cup {Undef} : IntersectCall(x)
  \/ \E c \in ProdPool \cup {NotAFunction} : ArrayOfNew(c)
  \/ \E a \in {Arr(s) : s \in ArgLists} \cup {Str("4")} : ArrayOfCall(a)
  \/ \E fs \in Descriptors : PbnNew(fs)
  \/ \E x \in {Arr(a) : a \in ArgLists} \cup {Str("4")} : PbnCall(x)
  \/ \E x \in ArgVals \cup {Undef} : UnionCall(x)
  \/ \E choice \in Choices : CoprodsCall(choice)
  \/ \E i \in MemoIds, c \in MemoFns \cup {NotAFunction} : MemoNew(i, c)
  \/ \E i \in MemoIds, s \in MemoArgs : MemoCall(i, s)
  \/ \E i \in MemoIds, s \in MemoArgs : MemoEnter(i, s)
  \/ \E i \in MemoIds : MemoReturn(i)

Spec == Init /\ [][Next]_vars

---------------------------------------------------------------------------
(* What the properties below speak of. *)

\* the precondition of g accepts args: the count is right and every
\* parameter contract accepts its argument
PreOk(g, args) ==
  /\ Len(args) = Len(g.params)
  /\ \A i \in 1..Len(args) : Apply(g.params[i], args[i]).ok

\* [p1(a1), ..., pn(an)]
Validated(g, args) ==
  [i \in 1..Len(args) |-> Apply(g.params[i], args[i]).val]

IsOpt(p) == p.t = "function" /\ p.v.opt

\* the number of optional parameters ending the list ps
RECURSIVE TrailingOpt(_)
TrailingOpt(ps) ==
  IF ps = <<>> \/ ~IsOpt(ps[Len(ps)]) THEN 0
  ELSE 1 + TrailingOpt(SubSeq(ps, 1, Len(ps) - 1))

\* no required parameter follows an optional one
OptSuffix(ps) ==
  \A i, j \in 1..Len(ps) : (i < j /\ IsOpt(ps[i])) => IsOpt(ps[j])

\* int32Add = hom(int32, int32, int32)(function (n1, n2) { return n1 + n2; })
Int32Add ==
  [kind |-> "fn", params |-> <<Fn("int32"), Fn("int32")>>,
   post |-> Fn("int32"), f |-> Fn("add"), c |-> Undef]

---------------------------------------------------------------------------
(* hom. *)

\* C1: a call of the guarded callable whose precondition accepts runs the
\* wrapped callable exactly once, on the receiver of the call and on the
\* argument list [p1(a1), ..., pn(an)]; a call that returns returns r
\* applied to the wrapped callable's result.
C1_GuardedCall ==
  last.op = "call" =>
    /\ PreOk(guarded, last.args) =>
         /\ Len(last.inv) = 1
         /\ last.inv[1].recv = last.recv
         /\ last.inv[1].args = Validated(guarded, last.args)
         /\ last.inv[1].out =
              CallMiddle(guarded.f, last.recv, Validated(guarded, last.args),
                         last.count0).out
    /\ last.out.ok =>
         /\ PreOk(guarded, last.args)
         /\ last.inv[1].out.ok
         /\ last.out = Apply(guarded.post, last.inv[1].out.val)

\* a call returned although the wrapped callable saw coerced arguments
C1_Witness ==
  /\ last.op = "call"
  /\ last.out.ok
  /\ Len(last.inv) = 1
  /\ last.inv[1].args # last.args
  /\ last.inv[1].recv = Obj(1, "Foo")

\* C2: a call whose arguments fail the precondition (wrong count, or some
\* pi(ai) throws) throws and never runs the wrapped callable; int32Add
\* returns 7 on (3, 4) and throws a TypeError on (3, "4") without adding.
C2_PreconditionFailure ==
  last.op = "call" =>
    /\ ~PreOk(guarded, last.args) =>
         /\ ~last.out.ok
         /\ last.inv = <<>>
         /\ count = last.count0
    /\ (guarded = Int32Add /\ last.args = <<N(3), N(4)>>) =>
         last.out = Ret(N(7))
    /\ (guarded = Int32Add /\ last.args = <<N(3), Str("4")>>) =>
         /\ ~last.out.ok
         /\ last.out.val.v.name = "TypeError"
         /\ last.inv = <<>>

\* int32Add was called on (3, "4") and threw
C2_Witness ==
  /\ last.op = "call"
  /\ guarded = Int32Add
  /\ last.args = <<N(3), Str("4")>>
  /\ ~last.out.ok

\* C3: when the wrapped callable returns a result the result contract
\* rejects, the guarded call throws the contract's error and what the
\* callable wrote to the cell stays written.
C3_PostconditionFailure ==
  ( /\ last.op = "call"
    /\ Len(last.inv) = 1
    /\ last.inv[1].out.ok
    /\ ~Apply(guarded.post, last.inv[1].out.val).ok ) =>
    /\ ~last.out.ok
    /\ last.out = Apply(guarded.post, last.inv[1].out.val)
    /\ count = CallMiddle(guarded.f, last.recv, last.inv[1].args,
                          last.count0).count

\* tick ran and incremented the cell, its result was rejected
C3_Witness ==
  /\ last.op = "call"
  /\ guarded.f = Fn("tick")
  /\ Len(last.inv) = 1
  /\ ~last.out.ok
  /\ count = last.count0 + 1

\* C4: a function contract with n parameters, the last k of them marked
\* optional, accepts a call (runs the wrapped callable) exactly when the
\* argument count is between n - k and n and every supplied argument passes
\* its contract.
C4_OptionalArity ==
  last.op = "call" =>
    ( Len(last.inv) = 1 <=>
        /\ Len(guarded.params) - TrailingOpt(guarded.params) <= Len(last.args)
        /\ Len(last.args) <= Len(guarded.params)
        /\ \A i \in 1..Len(last.args) :
             Apply(guarded.params[i], last.args[i]).ok )

\* C5: hom throws when a required parameter follows an optional one, and
\* every function contract built has its optional parameters at the end.
C5_OptionalSuffix ==
  /\ (last.op = "hom" /\ ~OptSuffix(homInputs(last.args))) => ~last.out.ok
  /\ homab.live => OptSuffix(homab.params)

---------------------------------------------------------------------------
(* self. *)

\* C6: a method built by hom(...).self(c)(m) throws, without running m,
\* when c rejects the receiver, whatever the arguments; when c accepts the
\* receiver the call does what the hom-guarded m does on c(receiver).
C6_SelfBinding ==
  last.op = "mcall" =>
    /\ ~Apply(guarded.c, last.recv).ok =>
         /\ ~last.out.ok
         /\ last.inv = <<>>
         /\ count = last.count0
    /\ Apply(guarded.c, last.recv).ok =>
         /\ last.out = homCall(guarded, Apply(guarded.c, last.recv).val,
                               last.args, last.count0).out
         /\ last.inv = homCall(guarded, Apply(guarded.c, last.recv).val,
                               last.args, last.count0).inv
         /\ count = homCall(guarded, Apply(guarded.c, last.recv).val,
                            last.args, last.count0).count

\* a method was called with valid arguments on a receiver c rejects
C6_Witness ==
  /\ last.op = "mcall"
  /\ ~Apply(guarded.c, last.recv).ok
  /\ PreOk(guarded, last.args)
  /\ ~last.out.ok

---------------------------------------------------------------------------
(* memo. *)

\* C7: for every argument k whose first call m(k) returned, the wrapped
\* callable ran exactly once for k, and every call m(k) returns what the
\* first call m(k) returned.
C7_MemoOnce ==
  \A i \in MemoIds : \A k \in DOMAIN seen[i] :
    seen[i][k].first.ok =>
      /\ seen[i][k].runs = 1
      /\ (last.op = "memoCall" /\ last.who = i /\ last.args = <<k>>) =>
           last.out = seen[i][k].first

\* C8: a cache only grows, an entry never changes once written, and an
\* entry is written only by a call on the argument of that key, holding the
\* validated output the wrapped callable computed in that call.
C8_CacheEntries ==
  [][\A i \in MemoIds :
       /\ \A k \in DOMAIN memos[i].cache :
            /\ k \in DOMAIN memos'[i].cache
            /\ memos'[i].cache[k] = memos[i].cache[k]
       /\ \A k \in DOMAIN memos'[i].cache \ DOMAIN memos[i].cache :
            /\ last'.op = "memoCall"
            /\ last'.who = i
            /\ k = memoKey(last'.args[1])
            /\ Len(last'.inv) = 1
            /\ last'.inv[1].args = last'.args
            /\ last'.inv[1].out.ok
            /\ Apply(memos[i].g.post, last'.inv[1].out.val).ok
            /\ memos'[i].cache[k]
                 = Apply(memos[i].g.post, last'.inv[1].out.val).val
    ]_vars

\* a call was answered from the cache with a value that is not its argument
C8_Witness ==
  /\ last.op = "memoCall"
  /\ last.inv = <<>>
  /\ last.out.ok
  /\ memoKey(last.args[1]) \in DOMAIN memos[last.who].cache
  /\ last.out.val = memos[last.who].cache[memoKey(last.args[1])]
  /\ last.out.val # last.args[1]

\* C9: a call of one memoizer leaves every other memoizer as it was, and a
\* call on an argument whose key is not in the called memoizer's own cache
\* runs that memoizer's wrapped callable (once str accepted the argument,
\* in "js"), whatever the other caches hold.
C9_CachesNotShared ==
  [][last'.op = "memoCall" =>
       /\ \A j \in MemoIds \ {last'.who} : memos'[j] = memos[j]
       /\ ( /\ memos[last'.who].live
            /\ rev = "js" => string(last'.args[1]).ok
            /\ memoKey(last'.args[1]) \notin DOMAIN memos[last'.who].cache )
          => /\ Len(last'.inv) = 1
             /\ last'.inv[1].args = last'.args
    ]_vars

\* memoizer 2 ran the wrapped callable for an argument memoizer 1 of the
\* same callable holds in its cache, and stored another value
C9_Witness ==
  /\ last.op = "memoCall"
  /\ last.who = 2
  /\ Len(last.inv) = 1
  /\ memos[1].live
  /\ memos[1].g = memos[2].g
  /\ memoKey(last.args[1]) \in DOMAIN memos[1].cache
  /\ memoKey(last.args[1]) \in DOMAIN memos[2].cache
  /\ memos[1].cache[memoKey(last.args[1])]
       # memos[2].cache[memoKey(last.args[1])]

\* C21: a memoized call that throws leaves every cache as it was, and when
\* the wrapped callable ran in that call, the next call on the same
\* argument runs it again.
C21_FailedCallNotCached ==
  [][/\ (last'.op = "memoCall" /\ ~last'.out.ok) => memos' = memos
     /\ ( /\ last.op = "memoCall"
          /\ ~last.out.ok
          /\ Len(last.inv) = 1
          /\ last'.op = "memoCall"
          /\ last'.who = last.who
          /\ last'.args = last.args )
        => /\ Len(last'.inv) = 1
           /\ last'.inv[1].args = last'.args
    ]_vars

\* the wrapped callable threw in a call, ran again in the next call on the
\* same argument, and the cache holds no entry for it
C21_Witness ==
  /\ last.op = "memoCall"
  /\ ~last.out.ok
  /\ Len(last.inv) = 1
  /\ seen[last.who][last.args[1]].runs = 2
  /\ memoKey(last.args[1]) \notin DOMAIN memos[last.who].cache

\* C22: a cache changes only in the step in which a wrapped computation
\* returns; and when the wrapped callable has just been entered for an
\* argument and the memoized function is called on that argument again
\* before it returns, the second call finds no entry and enters the
\* wrapped callable again.
C22_ReentrantRecompute ==
  [][\A i \in MemoIds :
       /\ memos'[i].cache # memos[i].cache =>
            /\ last'.op = "memoCall"
            /\ last'.who = i
            /\ Len(last'.inv) = 1
            /\ last'.inv[1].out.ok
       /\ ( /\ last.op = "memoEnter"
            /\ last.who = i
            /\ last'.who = i
            /\ last'.args = last.args
            /\ Len(memos'[i].pending) >= Len(memos[i].pending) )
          => /\ last'.op = "memoEnter"
             /\ memos'[i].pending = Append(memos[i].pending, last.args[1])
             /\ memos'[i].cache = memos[i].cache
             /\ memoKey(last.args[1]) \notin DOMAIN memos[i].cache
             /\ seen'[i][last.args[1]].runs
                  = seen[i][last.args[1]].runs + 1
    ]_vars

\* two calls of one memoized function on the same argument are in
\* progress: the wrapped callable was entered twice for it and the cache
\* holds no entry for its key
C22_Witness ==
  \E i \in MemoIds :
    /\ Len(memos[i].pending) = 2
    /\ memos[i].pending[1].t = memos[i].pending[2].t
    /\ memos[i].pending[1].v = memos[i].pending[2].v
    /\ memoKey(memos[i].pending[1]) \notin DOMAIN memos[i].cache
    /\ seen[i][memos[i].pending[1]].runs = 2

---------------------------------------------------------------------------
(* prodn. *)

\* C10: prodn over [c1, ..., cn] applied to an array of m elements throws
\* the arity error when m differs from n, and returns
\* [c1(v1), ..., cn(vn)] when m = n and every ci(vi) succeeds.
C10_Prodn ==
  (last.op = "prodnCall" /\ last.args[1].t = "array") =>
    /\ Len(last.args[1].v) # Len(prod.cs) =>
         /\ ~last.out.ok
         /\ last.out.val.v.message \in
              {"Expected " \o NatToStr(Len(prod.cs)) \o " arguments",
               "Expected " \o NatToStr(Len(prod.cs)) \o " elements"}
    /\ ( /\ Len(last.args[1].v) = Len(prod.cs)
         /\ \A i \in 1..Len(prod.cs) :
              Apply(prod.cs[i], last.args[1].v[i]).ok ) =>
         last.out = Ret(Arr([i \in 1..Len(prod.cs) |->
                               Apply(prod.cs[i], last.args[1].v[i]).val]))

\* a product of two contracts returned a pair that is not its input
C10_Witness ==
  /\ last.op = "prodnCall"
  /\ Len(prod.cs) = 2
  /\ last.out.ok
  /\ last.out.val # last.args[1]

---------------------------------------------------------------------------
(* coprodn and coprods. *)

\* x is a pair [tag, payload] with tag an index of the descriptor cs and
\* payload accepted by the contract at that index
ValidChoiceN(cs, x) ==
  /\ x.t = "array"
  /\ Len(x.v) = 2
  /\ x.v[1].t = "number"
  /\ \E i \in 1..Len(cs.v) : x.v[1] = N(i - 1) /\ Apply(cs.v[i], x.v[2]).ok

\* x is a pair [tag, payload] with tag a key of the descriptor cs and
\* payload accepted by the contract at that key
ValidChoiceS(cs, x) ==
  /\ x.t = "array"
  /\ Len(x.v) = 2
  /\ x.v[1].t = "string"
  /\ HasOwn(cs, x.v[1].v)
  /\ Apply(Get(cs, x.v[1].v), x.v[2]).ok

\* C11: a coproduct contract accepts a value exactly when it is a pair
\* [tag, payload] whose tag is an index (coprodn) or a key (coprods) of the
\* descriptor and whose payload passes the contract at that tag;
\* coprodn([c0, c1]) throws "Tag out of range." on [2, v], and coprods
\* throws "Unknown tag." on a pair whose string tag is no key.
C11_Coproducts ==
  /\ last.op = "coprodnCall" =>
       /\ last.out.ok <=> ValidChoiceN(comb.cs, last.args[1])
       /\ ( /\ Len(comb.cs.v) = 2
            /\ last.args[1].t = "array"
            /\ Len(last.args[1].v) = 2
            /\ last.args[1].v[1] = N(2) ) =>
            last.out = TypeError("Tag out of range.")
  /\ last.op = "coprodsCall" =>
       /\ last.out.ok <=> ValidChoiceS(comb.cs, last.args[1])
       /\ ( /\ last.args[1].t = "array"
            /\ Len(last.args[1].v) = 2
            /\ last.args[1].v[1].t = "string"
            /\ ~HasOwn(comb.cs, last.args[1].v[1].v) ) =>
            last.out = TypeError("Unknown tag.")

---------------------------------------------------------------------------
(* union. *)

\* the contracts of cs that accept x, by index
Accepting(cs, x) == {i \in 1..Len(cs) : Apply(cs[i], x).ok}

\* the least element of a non-empty set of numbers
Least(S) == CHOOSE i \in S : \A j \in S : i <= j

\* C12: union(cs)(x) returns what the first contract of cs accepting x
\* returns on x itself, having applied the contracts before it and no
\* contract after it; it throws its own "No match among unioned types."
\* exactly when every contract throws; union([never, K(7)]) returns 7.
C12_UnionOrder ==
  last.op = "unionCall" =>
    /\ Accepting(comb.cs.v, last.args[1]) # {} =>
         /\ last.out = Apply(comb.cs.v[Least(Accepting(comb.cs.v,
                                                        last.args[1]))],
                             last.args[1])
         /\ last.who = Least(Accepting(comb.cs.v, last.args[1]))
    /\ Accepting(comb.cs.v, last.args[1]) = {} =>
         /\ last.out = TypeError("No match among unioned types.")
         /\ last.who = Len(comb.cs.v)
    /\ comb.cs.v = <<Fn("never"), Fn("K7")>> => last.out = Ret(N(7))

\* the first alternative threw and the union returned the second's result
C12_Witness ==
  /\ last.op = "unionCall"
  /\ Len(comb.cs.v) >= 2
  /\ ~Apply(comb.cs.v[1], last.args[1]).ok
  /\ last.out.ok
  /\ last.who = 2
  /\ last.out.val # last.args[1]

---------------------------------------------------------------------------
(* pbn. *)

\* x is a tuple the derivers fs all accept, position by position
Derivable(fs, x) ==
  /\ x.t = "array"
  /\ Len(x.v) = Len(fs)
  /\ \A i \in 1..Len(fs) : Apply(fs[i], x.v[i]).ok

\* [f1(a1), ..., fn(an)]
Derived(fs, x) == [i \in 1..Len(fs) |-> Apply(fs[i], x.v[i]).val]

\* the positions (counted from 0) whose derived value is not strictly
\* equal to the first derived value
Mismatches(fs, x) ==
  {i \in 1..Len(fs) : ~StrictEq(Derived(fs, x)[i], Derived(fs, x)[1])}

SameVal(x, y) == x.t = y.t /\ x.v = y.v

\* the tuples a and b hold the same elements
SameTuple(a, b) ==
  /\ Len(a) = Len(b)
  /\ \A i \in 1..Len(a) : SameVal(a[i], b[i])

\* C14: when pbn(fs)(args) succeeds it returns the tuple it was given
\* with the elements it was given: element i is ai, not fi(ai).
C14_PullbackReturnsInput ==
  (last.op = "pbnCall" /\ last.out.ok) =>
    /\ last.out.val.t = "array"
    /\ SameTuple(last.out.val.v, last.args[1].v)

---------------------------------------------------------------------------
(* prods. *)

\* p and q are the same reference (or both no object)
SameRef(p, q) == p.t = q.t /\ (p.t = "object" => p.v.id = q.v.id)

\* the field lists f and g hold the same fields in the same order
SameFields(f, g) ==
  /\ Len(f) = Len(g)
  /\ \A i \in 1..Len(f) : f[i].k = g[i].k /\ SameVal(f[i].v, g[i].v)

\* the object a is the object b, with b's prototype and b's fields
Untouched(a, b) ==
  /\ SameRef(a, b)
  /\ a.t = "object" =>
       SameRef(a.v.proto, b.v.proto) /\ SameFields(a.v.fields, b.v.fields)

\* the own field k of the object o is cs[k](x[k])
Validates(o, cs, x, k) ==
  /\ HasOwn(o, k)
  /\ Apply(Get(cs, k), Get(x, k)).ok
  /\ SameVal(Get(o, k), Apply(Get(cs, k), Get(x, k)).val)

\* the set of keys of a field list
KeySet(fs) == {fs[i].k : i \in 1..Len(fs)}

\* a call of a prods that copies: jscategory.js, and the third copy
CopyCall ==
  (last.op = "prodsCall" /\ rev = "js") \/ last.op = "prodsVarCall"

\* C15: the copying prods leaves its input as it was; when it returns it
\* returns a new object whose prototype is the input's prototype and whose
\* fields are the descriptor's keys, field i being cs[i](x[i]).
C15_ProdsCopy ==
  CopyCall =>
    /\ Untouched(last.recv, last.args[1])
    /\ last.out.ok =>
         /\ last.out.val.t = "object"
         /\ last.out.val.v.id # last.args[1].v.id
         /\ SameRef(last.out.val.v.proto, last.args[1].v.proto)
         /\ KeySet(last.out.val.v.fields) = KeySet(comb.cs.v.fields)
         /\ \A k \in KeySet(comb.cs.v.fields) :
              Validates(last.out.val, comb.cs, last.args[1], k)

\* C16: the in-place prods, when it returns, returns the object it was
\* given, with cs[i](x[i]) written into field i for every descriptor key i
\* and every other field as it was.
C16_ProdsInPlace ==
  (last.op = "prodsCall" /\ rev = "es6" /\ last.out.ok) =>
    /\ SameRef(last.out.val, last.args[1])
    /\ SameRef(last.recv, last.args[1])
    /\ SameFields(last.recv.v.fields, last.out.val.v.fields)
    /\ SameRef(last.recv.v.proto, last.args[1].v.proto)
    /\ KeySet(last.recv.v.fields) =
         KeySet(last.args[1].v.fields) \cup KeySet(comb.cs.v.fields)
    /\ \A k \in KeySet(comb.cs.v.fields) :
         Validates(last.recv, comb.cs, last.args[1], k)
    /\ \A k \in KeySet(last.args[1].v.fields) \ KeySet(comb.cs.v.fields) :
         SameVal(Get(last.recv, k), Get(last.args[1], k))

\* the object given came back with field a coerced and field c as it was
C16_Witness ==
  /\ last.op = "prodsCall"
  /\ rev = "es6"
  /\ last.out.ok
  /\ last.out.val.v.id = last.args[1].v.id
  /\ HasOwn(last.args[1], "c")
  /\ HasOwn(last.recv, "c")
  /\ ~SameVal(Get(last.recv, "a"), Get(last.args[1], "a"))

\* C17: a named product applied to a record whose own keys are not
\* exactly the keys of its descriptor throws.
C17_ProdsKeySet ==
  ( /\ last.op \in {"prodsCall", "prodsVarCall"}
    /\ last.args[1].t = "object"
    /\ KeySet(last.args[1].v.fields) # KeySet(comb.cs.v.fields) ) =>
    ~last.out.ok

---------------------------------------------------------------------------
(* int32 and nat32. *)

\* x is a number, an integer, and lies in [-2^31, 2^31 - 1]
InInt32Range(x) ==
  /\ x.t = "number"
  /\ ~x.v.nan
  /\ ~x.v.frac
  /\ 0 - Limb \div 2 <= x.v.hi
  /\ x.v.hi <= Limb \div 2 - 1

\* C18: int32 returns its argument unchanged exactly when the argument is
\* an integer of the signed 32-bit range and throws otherwise; nat32
\* accepts exactly the values int32 accepts that are not negative.
C18_Int32Range ==
  last.op = "prim" =>
    /\ last.args[1] = Fn("int32") =>
         /\ last.out.ok <=> InInt32Range(last.args[2])
         /\ last.out.ok => SameVal(last.out.val, last.args[2])
         /\ ~last.out.ok =>
              last.out = TypeError("Expected a 32-bit integer.")
    /\ last.args[1] = Fn("nat32") =>
         /\ last.out.ok <=>
              (InInt32Range(last.args[2]) /\ last.args[2].v.hi >= 0)
         /\ last.out.ok => SameVal(last.out.val, last.args[2])
         /\ ~last.out.ok =>
              last.out = TypeError("Expected a 32-bit natural.")

\* int32 threw on 2^31, the first integer past the range
C18_Witness ==
  /\ last.op = "prim"
  /\ last.args[1] = Fn("int32")
  /\ SameVal(last.args[2], Num(Limb \div 2, 0))
  /\ ~last.out.ok

---------------------------------------------------------------------------
(* Order of validation. *)

\* the indices i at which cs[i] throws on xs[i]
Failing(cs, xs) == {i \in 1..Len(cs) : ~Apply(cs[i], xs[i]).ok}

\* the value intersect hands to the contract at index i: x run through
\* the contracts before it
RECURSIVE Chained(_, _, _)
Chained(cs, x, i) ==
  IF i = 1 THEN x ELSE Apply(cs[i - 1], Chained(cs, x, i - 1)).val

\* the indices at which the chain of intersect throws first
RECURSIVE ChainFails(_, _, _)
ChainFails(cs, x, i) ==
  IF i > Len(cs) THEN 0
  ELSE IF ~Apply(cs[i], Chained(cs, x, i)).ok THEN i
  ELSE ChainFails(cs, x, i + 1)

\* C19: prodn, the precondition of hom, arrayOf and intersect apply their
\* member contracts in index order and stop at the first that throws: the
\* contracts after it are not applied, and the caller gets the error that
\* contract threw, as it threw it.
C19_ShortCircuit ==
  /\ ( /\ last.op = "prodnCall"
       /\ last.args[1].t = "array"
       /\ Len(last.args[1].v) = Len(prod.cs) ) =>
       IF Failing(prod.cs, last.args[1].v) = {}
       THEN last.out.ok /\ last.who = Len(prod.cs)
       ELSE /\ last.who = Least(Failing(prod.cs, last.args[1].v))
            /\ last.out = Apply(prod.cs[last.who], last.args[1].v[last.who])
  /\ (last.op = "call" /\ Len(last.args) = Len(guarded.params)) =>
       IF Failing(guarded.params, last.args) = {}
       THEN /\ Len(trace) > Len(guarded.params)
            /\ SubSeq(trace, 1, Len(guarded.params) + 1)
                 = ParamSteps(Len(guarded.params)) \o <<"middle">>
       ELSE /\ trace = ParamSteps(Least(Failing(guarded.params, last.args)))
            /\ last.out = Apply(guarded.params[Len(trace)],
                                last.args[Len(trace)])
  /\ (last.op = "arrayOfCall" /\ last.args[1].t = "array") =>
       IF \A i \in 1..Len(last.args[1].v) :
            Apply(comb.cs, last.args[1].v[i]).ok
       THEN last.out.ok /\ last.who = Len(last.args[1].v)
       ELSE /\ last.who = Least({i \in 1..Len(last.args[1].v) :
                                   ~Apply(comb.cs, last.args[1].v[i]).ok})
            /\ last.out = Apply(comb.cs, last.args[1].v[last.who])
  /\ last.op = "intersectCall" =>
       IF ChainFails(comb.cs.v, last.args[1], 1) = 0
       THEN last.out.ok /\ last.who = Len(comb.cs.v)
       ELSE /\ last.who = ChainFails(comb.cs.v, last.args[1], 1)
            /\ last.out = Apply(comb.cs.v[last.who],
                                Chained(comb.cs.v, last.args[1], last.who))

\* a product stopped at its first contract although a later one would
\* have thrown another error
C19_Witness ==
  /\ last.op = "prodnCall"
  /\ last.args[1].t = "array"
  /\ Len(last.args[1].v) = Len(prod.cs)
  /\ Len(prod.cs) >= 2
  /\ last.who = 1
  /\ ~last.out.ok
  /\ ~Apply(prod.cs[2], last.args[1].v[2]).ok
  /\ Apply(prod.cs[2], last.args[1].v[2]) # last.out


\* the number of times the step e occurs in the trace
Times(e) == Cardinality({i \in 1..Len(trace) : trace[i] = e})

\* C20: a call of a method built by hom(...).self(c)(m) applies c to the
\* receiver first.  When c throws, no parameter contract is applied and m
\* does not run.  When c returns, c was applied once, the precondition is
\* run once (every parameter contract once, in order, when the arguments
\* pass), m runs once after it, and the result contract is applied once to
\* what m returned.
C20_ReceiverFirst ==
  last.op = "mcall" =>
    /\ Len(trace) >= 1
    /\ trace[1] = "recv"
    /\ Times("recv") = 1
    /\ ~Apply(guarded.c, last.recv).ok =>
         /\ trace = <<"recv">>
         /\ last.inv = <<>>
         /\ last.out = Apply(guarded.c, last.recv)
    /\ (Apply(guarded.c, last.recv).ok /\ PreOk(guarded, last.args)) =>
         /\ Len(last.inv) = 1
         /\ trace = <<"recv">> \o ParamSteps(Len(guarded.params))
                      \o <<"middle">>
                      \o (IF last.inv[1].out.ok THEN <<"post">> ELSE <<>>)
    /\ (Apply(guarded.c, last.recv).ok /\ ~PreOk(guarded, last.args)) =>
         /\ last.inv = <<>>
         /\ Times("middle") = 0
         /\ Times("post") = 0

\* a method ran on an accepted receiver: receiver, two parameters, the
\* method, the result, in that order
C20_Witness ==
  /\ last.op = "mcall"
  /\ last.out.ok
  /\ trace = <<"recv", "param0", "param1", "middle", "post">>

====
